---- MODULE Spec2Model ----
(***************************************************************************)
(* Order & Ticket Lifecycle Engine of waitless-market.                     *)
(*                                                                         *)
(* The system of record is an external store (Supabase/Postgres); every    *)
(* `await supabaseAdmin...` in the source is one atomic store operation    *)
(* and one step of the model.  Request handlers keep no shared in-process  *)
(* state, so a handler is a process whose local variables live in its own  *)
(* record (upd, crt, start, cash).                                         *)
(***************************************************************************)
EXTENDS Integers, Sequences, FiniteSets, TLC

(***************************************************************************)
(* Bounds of the model.                                                    *)
(***************************************************************************)
MaxOrders == 1      \* orders the store may hold in the lifecycle specifications
MaxSessions == 1    \* tickets the store may hold in the lifecycle specifications
MaxEvents == 3      \* status calls start only while an order's log is shorter
MaxAt == 2          \* timestamps are 1..MaxAt
MaxCode == 1        \* distinct 4-digit values the code generator may draw
MaxQty == 2         \* largest quantity of a cart line
MaxPrice == 3       \* small unit prices tried beside the scenario's prices
MaxTicketCode == 3  \* code values drawn where several rows need distinct codes
MaxTickets == 2     \* tickets the store may hold in the ticket specifications
MaxBasket == 2      \* lines of a basket, and orders the store holds beside it
MaxDay == 2         \* calendar days the summaries are asked for
MaxRows == 2        \* orders in the table the summaries read
MaxFetches == 3     \* calls of fetchStatus the status page is followed for
MaxClock == 7       \* thirds of the debounce delay the dashboard is followed for

(***************************************************************************)
(* Program constants.                                                      *)
(***************************************************************************)
NULL == 0           \* SQL null / JS null of a nullable column or field
StartAttempts == 5   \* for (let i = 0; i < 5; i++) in sessions/start
DebounceMs == 300    \* setTimeout(..., 300) in scheduleRefresh

Times == 1..MaxAt
Statuses == {"preparing", "ready", "collected"}
NoStatus == "null"  \* from_status of the creation event
Actors == {"vendor", "cashier", "system"}
Workers == {"w1", "w2"}     \* concurrent update-status requests
Cashiers == {"c1"}          \* concurrent create-order requests

\* generateSimpleCode(prefix): `${prefix}-${random}`, random in 1000..9999.
\* The string is modelled by the pair <<prefix, random>>: two such strings are
\* equal exactly when the pairs are.
SimpleCodes(prefix, k) == {<<prefix, 1000 + i>> : i \in 0..(k - 1)}
generateSimpleCode(prefix) == SimpleCodes(prefix, MaxCode)
generateTicketCode == SimpleCodes("WL", MaxTicketCode)

VendorIds == {"v1", "v2", "v3", "v4"}
MenuIds == {"m1", "m2", "m3", "m4", "m5"}

VARIABLES
  vendors,    \* table vendors: id -> [is_active]
  menu,       \* table menu_items: id -> row
  sessions,   \* table order_sessions: sequence of rows, id = index
  orders,     \* table orders: sequence of rows, id = index
  items,      \* table order_items: order id -> sequence of rows, append order
  events,     \* table order_events: order id -> sequence of rows, append order
  upd,        \* updateOrderStatus calls in flight, one per worker
  crt,        \* createOrder calls in flight, one per cashier request
  start,      \* the sessions/start call
  cash,       \* the cashier page (basket, active ticket, fan-out loop)
  adm,        \* the last answer of an admin endpoint (summary, reports)
  dash,       \* the admin dashboard page (debounce timer, re-fetches)
  view        \* the customer status page (displayed data, fetches in flight)

vars == <<vendors, menu, sessions, orders, items, events, upd, crt, start, cash, adm, dash, view>>
pages == <<adm, dash, view>>
store == <<sessions, orders, items, events>>
catalog == <<vendors, menu>>

OrderIds == 1..Len(orders)
SessionIds == 1..Len(sessions)

(***************************************************************************)
(* Lifecycle state machine.                                                *)
(***************************************************************************)
canTransitionSkip(from, to) ==
  \/ from = "preparing" /\ to = "ready"
  \/ from = "ready" /\ to = "collected"
  \/ from = "preparing" /\ to = "collected"

canTransition(from, to) ==
  \/ from = "preparing" /\ to = "ready"
  \/ from = "ready" /\ to = "collected"


(***************************************************************************)
(* The store: rows and the operations the handlers issue on them.          *)
(***************************************************************************)
\* The column values updateOrderStatus selects: id, status and the timing fields.
StatusRow(id) ==
  [id |-> id,
   status |-> orders[id].status,
   preparing_at |-> orders[id].preparing_at,
   ready_at |-> orders[id].ready_at,
   collected_at |-> orders[id].collected_at]

NoRow == [id |-> NULL, status |-> NoStatus, preparing_at |-> NULL,
          ready_at |-> NULL, collected_at |-> NULL]

\* .eq("id", orderId) or .eq("order_code", orderCode), then .limit(1): the ids
\* of the matching rows.
MatchingOrders(key) ==
  IF key.by = "id"
    THEN {o \in OrderIds : o = key.id}
    ELSE {o \in OrderIds : orders[o].order_code = key.code}

FirstOf(S) == CHOOSE x \in S : \A y \in S : x <= y

TicketCodes == {sessions[s].ticket_code : s \in SessionIds}
OrderCodes == {orders[o].order_code : o \in OrderIds}

(***************************************************************************)
(* updateOrderStatus: load the current row, decide, write the status and   *)
(* the timestamps, append the audit event.  Three store operations, three  *)
(* steps; other requests may run between them.                             *)
(***************************************************************************)
IdleUpd == [pc |-> "idle", to |-> "preparing", actor |-> "vendor", at |-> NULL,
            cur |-> NoRow, result |-> "none"]

UpdKeys ==
  {[by |-> "id", id |-> i, code |-> <<"", 0>>] : i \in 1..(MaxOrders + 1)}
    \cup {[by |-> "code", id |-> NULL, code |-> c] : c \in generateSimpleCode("WL")}

StatusUpdatesRestamp(cur, to, at) ==
  [status |-> to,
   set |-> {"status"}
           \cup (IF to = "preparing" THEN {"preparing_at"} ELSE {})
           \cup (IF to \in {"ready", "collected"} THEN {"ready_at"} ELSE {})
           \cup (IF to = "collected" THEN {"collected_at"} ELSE {}),
   at |-> at]

\* The update payload: the new status, and the timestamp of the status entered
\* when the row that was read has none.  A field the payload does not name
\* keeps its stored value; `set` says which fields the payload names.
StatusUpdates(cur, to, at) ==
  [status |-> to,
   set |-> {"status"}
           \cup (IF to = "preparing" /\ cur.preparing_at = NULL THEN {"preparing_at"} ELSE {})
           \cup (IF to = "ready" /\ cur.ready_at = NULL THEN {"ready_at"} ELSE {})
           \cup (IF to = "collected" /\ cur.collected_at = NULL THEN {"collected_at"} ELSE {}),
   at |-> at]

\* A status update that also re-prices the order (not what the code does).
ApplyUpdatesRetotal(row, u) ==
  [row EXCEPT !.status = u.status,
              !.total_cents = 0,
              !.preparing_at = IF "preparing_at" \in u.set THEN u.at ELSE @,
              !.ready_at = IF "ready_at" \in u.set THEN u.at ELSE @,
              !.collected_at = IF "collected_at" \in u.set THEN u.at ELSE @]

\* .update(updates).eq("id", id) applied to the stored row.
ApplyUpdates(row, u) ==
  [row EXCEPT !.status = u.status,
              !.preparing_at = IF "preparing_at" \in u.set THEN u.at ELSE @,
              !.ready_at = IF "ready_at" \in u.set THEN u.at ELSE @,
              !.collected_at = IF "collected_at" \in u.set THEN u.at ELSE @]

\* What the handler does once the row is read: nothing when the status is the
\* requested one, a Conflict when the pair is no legal transition, else go on.
DecideAlwaysWrite(cur, to) ==
  IF canTransition(cur.status, to) \/ cur.status = to THEN "write" ELSE "conflict"

Decide(cur, to) ==
  IF cur.status = to THEN "noop"
  ELSE IF ~canTransition(cur.status, to) THEN "conflict"
  ELSE "write"

\* A finished call: the handler's locals are gone, its outcome is what the
\* caller sees ("noop" and "ok" return { id, status }, the others throw).
Returned(result) == [IdleUpd EXCEPT !.result = result]

UpdLoad(w, key, to, actor, at, ok) ==
  /\ upd[w].pc = "idle"
  /\ LET found == MatchingOrders(key)
         cur == IF ok /\ found # {} THEN StatusRow(FirstOf(found)) ELSE NoRow
         d == IF cur = NoRow THEN "notfound" ELSE Decide(cur, to)
     IN  upd' = [upd EXCEPT ![w] =
                   IF d = "write"
                     THEN [pc |-> "write", to |-> to, actor |-> actor, at |-> at,
                           cur |-> cur, result |-> "none"]
                     ELSE Returned(d)]
  /\ UNCHANGED <<catalog, store, crt, start, cash, pages>>

UpdWrite(w, ok) ==
  /\ upd[w].pc = "write"
  /\ IF ok
       THEN /\ orders' = [orders EXCEPT ![upd[w].cur.id] =
                            ApplyUpdates(@, StatusUpdates(upd[w].cur, upd[w].to, upd[w].at))]
            /\ upd' = [upd EXCEPT ![w].pc = "log"]
       ELSE /\ orders' = orders
            /\ upd' = [upd EXCEPT ![w] = Returned("failed")]
  /\ UNCHANGED <<catalog, sessions, items, events, crt, start, cash, pages>>

StatusEvent(from, to, actor) ==
  [from_status |-> from, to_status |-> to, actor |-> actor]

\* The event insert treated as fatal (not what the code does).
UpdLogFatal(w, ok) ==
  /\ upd[w].pc = "log"
  /\ events' = IF ok
                 THEN [events EXCEPT ![upd[w].cur.id] =
                         Append(@, StatusEvent(upd[w].cur.status, upd[w].to, upd[w].actor))]
                 ELSE events
  /\ upd' = [upd EXCEPT ![w] = Returned(IF ok THEN "ok" ELSE "failed")]
  /\ UNCHANGED <<catalog, sessions, orders, items, crt, start, cash, pages>>

\* 3) Log event; an error is logged and the call returns the new status.
UpdLog(w, ok) ==
  /\ upd[w].pc = "log"
  /\ events' = IF ok
                 THEN [events EXCEPT ![upd[w].cur.id] =
                         Append(@, StatusEvent(upd[w].cur.status, upd[w].to, upd[w].actor))]
                 ELSE events
  /\ upd' = [upd EXCEPT ![w] = Returned("ok")]
  /\ UNCHANGED <<catalog, sessions, orders, items, crt, start, cash, pages>>


(***************************************************************************)
(* createOrder: the library function (core/orders.ts, two revisions) and   *)
(* the route handler POST /api/orders/create, which inlines the same       *)
(* steps.  input.impl names the revision:                                  *)
(*   "core"  src/core/orders.ts        order codes MS-nnnn, no preparing_at*)
(*   "timed" src/unnamed/part_008      order codes WL-nnnn, preparing_at   *)
(*   "route" src/app/api/orders/create order codes WL-nnnn, no preparing_at*)
(* Optional inputs (taxRate, sessionId) are sequences of length 0 or 1.    *)
(***************************************************************************)
Impls == {"core", "timed", "route"}

NoInput == [impl |-> "core", vendorId |-> "", items |-> <<>>, taxRate |-> <<>>,
            sessionId |-> <<>>]

\* A cart line of a request.
Line(m, q) == [menuItemId |-> m, quantity |-> q, notes |-> ""]

IdleCrt == [pc |-> "idle", input |-> NoInput, session |-> NULL, rows |-> <<>>,
            totalCents |-> 0, netCents |-> 0, taxCents |-> 0, taxRate |-> 0,
            orderId |-> NULL, result |-> "none"]

OrderPrefix(impl) == IF impl = "core" THEN "MS" ELSE "WL"

RECURSIVE SumLines(_)
SumLines(rows) ==
  IF rows = <<>> THEN 0
  ELSE Head(rows).unit_price_cents * Head(rows).quantity + SumLines(Tail(rows))

\* Math.round(x) for x = num / den with num >= 0 and den > 0: the nearest
\* integer, a half rounded up.
RoundDivFloor(num, den) == num \div den

RoundDiv(num, den) == (2 * num + den) \div (2 * den)

\* taxRate > 0 ? Math.round(totalCents / (1 + taxRate / 100)) : totalCents.
\* total / (1 + r/100) = 100 * total / (100 + r).  The source divides in
\* double precision.  The exact quotient is a half-integer only when
\* r = 4 (mod 8); for every other integer rate it stays at least
\* 1/(2 * (100 + r)) away from a half, far more than the rounding error, and
\* for r = 100 the divisor 2 and the quotient are exact.  TaxRates keeps to
\* such rates, where the integer form below gives what the source gives.
TaxRates == {0, 5, 16, 100}

NetCents(totalCents, taxRate) ==
  IF taxRate > 0 THEN RoundDiv(100 * totalCents, 100 + taxRate) ELSE totalCents

\* input.items.map(...): one row per cart line, name and price copied from the
\* menu rows that were read.
RECURSIVE OrderItemsToInsert(_, _)
OrderItemsToInsert(lines, menuRows) ==
  IF lines = <<>> THEN <<>>
  ELSE <<[name_snapshot |-> menuRows[Head(lines).menuItemId].name,
          unit_price_cents |-> menuRows[Head(lines).menuItemId].price_cents,
          quantity |-> Head(lines).quantity,
          notes |-> Head(lines).notes]>>
       \o OrderItemsToInsert(Tail(lines), menuRows)

\* A finished call: its outcome and, once they exist, the ticket and the order
\* it returns or leaves behind.
Finished(result, r) ==
  [IdleCrt EXCEPT !.result = result, !.session = r.session, !.orderId = r.orderId]

\* A check that lets the empty cart through (not what the code does).
RejectsInputVendorOnly(input) ==
  input.impl = "route" /\ input.vendorId = ""

\* The cart is rejected before any store access.
RejectsInput(input) ==
  Len(input.items) = 0 \/ (input.impl = "route" /\ input.vendorId = "")

\* ensureSession inserts a ticket: no session id was given, the store accepts
\* the write and the generated code is not taken.
InsertsSession(input, code, ok) ==
  ~RejectsInput(input) /\ input.sessionId = <<>> /\ ok /\ code \notin TicketCodes

\* ensureSession, after the empty-cart check.
CrtEnsureSession(c, input, code, ok) ==
  /\ crt[c].pc = "idle"
  /\ IF RejectsInput(input)
       THEN /\ crt' = [crt EXCEPT ![c] = Finished("validation", IdleCrt)]
            /\ sessions' = sessions
       ELSE IF input.sessionId # <<>>
         THEN /\ crt' = [crt EXCEPT ![c] =
                   IF ok /\ input.sessionId[1] \in SessionIds
                     THEN [IdleCrt EXCEPT !.pc = "catalog", !.input = input,
                                          !.session = input.sessionId[1]]
                     ELSE Finished("session_not_found", IdleCrt)]
              /\ sessions' = sessions
         ELSE IF InsertsSession(input, code, ok)
           THEN /\ sessions' = Append(sessions, [ticket_code |-> code, status |-> "open"])
                /\ crt' = [crt EXCEPT ![c] =
                     [IdleCrt EXCEPT !.pc = "catalog", !.input = input,
                                     !.session = Len(sessions) + 1]]
           ELSE /\ sessions' = sessions
                /\ crt' = [crt EXCEPT ![c] = Finished("session_failed", IdleCrt)]
  /\ UNCHANGED <<catalog, orders, items, events, upd, start, cash, pages>>

\* The checks without the availability flag (not what the code does).
CatalogVerdictIgnoresAvailable(input, okVendor, okMenu) ==
  LET ids == {input.items[i].menuItemId : i \in 1..Len(input.items)}
      menuItems == {m \in DOMAIN menu : m \in ids}
  IN  IF ~okVendor \/ input.vendorId \notin DOMAIN vendors THEN "vendor_not_found"
      ELSE IF ~vendors[input.vendorId].is_active THEN "vendor_inactive"
      ELSE IF ~okMenu THEN "menu_failed"
      ELSE IF Cardinality(menuItems) # Len(input.items) THEN "items_not_found"
      ELSE IF \E m \in menuItems : ~menu[m].is_active
        THEN "item_unavailable"
      ELSE "ok"

\* The vendor and menu reads, the checks on them, and the totals.
CatalogVerdict(input, okVendor, okMenu) ==
  LET ids == {input.items[i].menuItemId : i \in 1..Len(input.items)}
      menuItems == {m \in DOMAIN menu : m \in ids}
  IN  IF ~okVendor \/ input.vendorId \notin DOMAIN vendors THEN "vendor_not_found"
      ELSE IF ~vendors[input.vendorId].is_active THEN "vendor_inactive"
      ELSE IF ~okMenu THEN "menu_failed"
      ELSE IF Cardinality(menuItems) # Len(input.items) THEN "items_not_found"
      ELSE IF \E m \in menuItems : ~menu[m].is_active \/ ~menu[m].is_available
        THEN "item_unavailable"
      ELSE "ok"

CrtValidate(c, okVendor, okMenu) ==
  /\ crt[c].pc = "catalog"
  /\ LET input == crt[c].input
         v == CatalogVerdict(input, okVendor, okMenu)
         rows == OrderItemsToInsert(input.items, menu)
         totalCents == SumLines(rows)
         taxRate == IF input.taxRate = <<>> THEN 0 ELSE input.taxRate[1]
         netCents == NetCents(totalCents, taxRate)
     IN  crt' = [crt EXCEPT ![c] =
           IF v = "ok"
             THEN [@ EXCEPT !.pc = "order", !.rows = rows, !.totalCents = totalCents,
                            !.taxRate = taxRate, !.netCents = netCents,
                            !.taxCents = totalCents - netCents]
             ELSE Finished(v, @)]
  /\ UNCHANGED <<catalog, store, upd, start, cash, pages>>

\* The order row put on the newest ticket instead of the call's ticket (not
\* what the code does).
NewOrderRowOnNewestTicket(r, code, now) ==
  [order_code |-> code,
   vendor_id |-> r.input.vendorId,
   session_id |-> Len(sessions),
   total_cents |-> r.totalCents,
   net_cents |-> r.netCents,
   tax_cents |-> r.taxCents,
   tax_rate |-> r.taxRate,
   status |-> "preparing",
   preparing_at |-> IF r.input.impl = "timed" THEN now ELSE NULL,
   ready_at |-> NULL,
   collected_at |-> NULL]

NewOrderRow(r, code, now) ==
  [order_code |-> code,
   vendor_id |-> r.input.vendorId,
   session_id |-> r.session,
   total_cents |-> r.totalCents,
   net_cents |-> r.netCents,
   tax_cents |-> r.taxCents,
   tax_rate |-> r.taxRate,
   status |-> "preparing",
   preparing_at |-> IF r.input.impl = "timed" THEN now ELSE NULL,
   ready_at |-> NULL,
   collected_at |-> NULL]

\* The store accepts the order row: the write succeeds and the code is not taken.
InsertsOrder(code, ok) == ok /\ code \notin OrderCodes

CrtInsertOrder(c, code, now, ok) ==
  /\ crt[c].pc = "order"
  /\ IF InsertsOrder(code, ok)
       THEN /\ orders' = Append(orders, NewOrderRow(crt[c], code, now))
            /\ crt' = [crt EXCEPT ![c].pc = "items", ![c].orderId = Len(orders) + 1]
       ELSE /\ orders' = orders
            /\ crt' = [crt EXCEPT ![c] = Finished("order_failed", @)]
  /\ UNCHANGED <<catalog, sessions, items, events, upd, start, cash, pages>>

CrtInsertItems(c, ok) ==
  /\ crt[c].pc = "items"
  /\ IF ok
       THEN /\ items' = [items EXCEPT ![crt[c].orderId] = @ \o crt[c].rows]
            /\ crt' = [crt EXCEPT ![c].pc = "event"]
       ELSE /\ items' = items
            /\ crt' = [crt EXCEPT ![c] = Finished("items_failed", @)]
  /\ UNCHANGED <<catalog, sessions, orders, events, upd, start, cash, pages>>

CrtInsertEvent(c, ok) ==
  /\ crt[c].pc = "event"
  /\ events' = IF ok
                 THEN [events EXCEPT ![crt[c].orderId] =
                         Append(@, StatusEvent(NoStatus, "preparing", "cashier"))]
                 ELSE events
  /\ crt' = [crt EXCEPT ![c] = Finished("ok", @)]
  /\ UNCHANGED <<catalog, sessions, orders, items, upd, start, cash, pages>>


(***************************************************************************)
(* sessions/start: standalone ticket creation.                             *)
(*   let ticket_code = generateTicketCode();                               *)
(*   for (let i = 0; i < 5; i++) { insert; if ok return; regenerate }      *)
(*   return 500                                                            *)
(* One step per insert; the loop test that follows a failed insert and the *)
(* final return belong to the step of that insert.                         *)
(***************************************************************************)
IdleStart == [pc |-> "idle", i |-> 0, ticket_code |-> <<>>, result |-> "none",
              session |-> NULL, attempts |-> 0]

LoopContinuesOnceMore(i) == i < StartAttempts + 1

LoopContinues(i) == i < StartAttempts

\* The store accepts the ticket row: the write succeeds and the code is free.
InsertsTicket(ok) == ok /\ start.ticket_code \notin TicketCodes

StartBegin(code) ==
  /\ start.pc = "idle"
  /\ start' = [IdleStart EXCEPT !.pc = "insert", !.ticket_code = code]
  /\ UNCHANGED <<catalog, store, upd, crt, cash, pages>>

StartInsert(ok, next) ==
  /\ start.pc = "insert"
  /\ IF InsertsTicket(ok)
       THEN /\ sessions' = Append(sessions, [ticket_code |-> start.ticket_code,
                                             status |-> "open"])
            /\ start' = [IdleStart EXCEPT !.result = "ok",
                                          !.session = Len(sessions) + 1,
                                          !.attempts = start.i + 1]
       ELSE /\ sessions' = sessions
            /\ start' = IF LoopContinues(start.i + 1)
                          THEN [start EXCEPT !.i = start.i + 1, !.ticket_code = next]
                          ELSE [IdleStart EXCEPT !.result = "exhausted",
                                                 !.attempts = start.i + 1]
  /\ UNCHANGED <<catalog, orders, items, events, upd, crt, cash, pages>>


(***************************************************************************)
(* The cashier page: basket, active ticket and the fan-out of one submit   *)
(* into one /api/orders/create request per vendor (handleSubmitTicket).    *)
(* React state: cart, currentSession, sessionOrders, printTicket, error.   *)
(* Locals of a running submit: byVendor, pos (the loop's place in          *)
(* byVendor.entries()), sessionId, newSessionOrders.  currentSession and   *)
(* sessionId hold the ticket's id; its code is the row's ticket_code.      *)
(* `before` is a history field: the store's size and the active ticket     *)
(* when the submit began.                                                  *)
(***************************************************************************)
NoBefore == [sessions |-> 0, orders |-> 0, active |-> NULL]

IdleCash == [pc |-> "idle", cart |-> <<>>, currentSession |-> NULL,
             sessionOrders |-> <<>>, printTicket |-> <<>>, error |-> "none",
             byVendor |-> <<>>, pos |-> 0, sessionId |-> NULL,
             newSessionOrders |-> <<>>, before |-> NoBefore]

CartItem(v, m) == [vendorId |-> v, menuItemId |-> m, quantity |-> 1, notes |-> ""]

\* Group cart items by vendor: a Map, iterated in insertion order.
RECURSIVE GroupByVendor(_, _)
GroupByVendor(cart, acc) ==
  IF cart = <<>> THEN acc
  ELSE LET item == Head(cart)
           at == {i \in 1..Len(acc) : acc[i].vendorId = item.vendorId}
       IN  GroupByVendor(Tail(cart),
             IF at = {}
               THEN Append(acc, [vendorId |-> item.vendorId, items |-> <<item>>])
               ELSE [acc EXCEPT ![FirstOf(at)].items = Append(@, item)])

RECURSIVE PayloadItems(_)
PayloadItems(cartItems) ==
  IF cartItems = <<>> THEN <<>>
  ELSE <<Line(Head(cartItems).menuItemId, Head(cartItems).quantity)>>
         \o PayloadItems(Tail(cartItems))

PayloadSessionIdDropped(sessionId) == <<>>

\* sessionId, // may be null for the first vendor -> backend creates session
PayloadSessionId(sessionId) == IF sessionId = NULL THEN <<>> ELSE <<sessionId>>

\* The body of the request for the vendor the loop is at.
Payload(k) ==
  [impl |-> "route",
   vendorId |-> k.byVendor[k.pos].vendorId,
   items |-> PayloadItems(k.byVendor[k.pos].items),
   taxRate |-> <<>>,
   sessionId |-> PayloadSessionId(k.sessionId)]

\* The basket is filled (addMenuItemToCart, one line at a time, abstracted to
\* its outcome).
CashFillCart(cart) ==
  /\ cash.pc = "idle"
  /\ cash.cart = <<>>
  /\ cash' = [cash EXCEPT !.cart = cart]
  /\ UNCHANGED <<catalog, store, upd, crt, start, pages>>

\* handleSubmitTicket up to its first request.
CashSubmit ==
  /\ cash.pc = "idle"
  /\ cash' = IF cash.cart = <<>>
               THEN [cash EXCEPT !.error = "basket_empty"]
               ELSE [cash EXCEPT !.pc = "loop", !.error = "none",
                                 !.byVendor = GroupByVendor(cash.cart, <<>>),
                                 !.pos = 1,
                                 !.sessionId = cash.currentSession,
                                 !.newSessionOrders = <<>>,
                                 !.before = [sessions |-> Len(sessions),
                                             orders |-> Len(orders),
                                             active |-> cash.currentSession]]
  /\ UNCHANGED <<catalog, store, upd, crt, start, pages>>

\* The response of a request arrives: stop on a failure, else take the ticket
\* from it, record the order and go on to the next vendor; after the last one
\* publish the ticket and clear the basket.
CashReceive(c) ==
  /\ cash.pc = "loop"
  /\ crt[c].pc = "idle"
  /\ crt[c].result # "none"
  /\ crt' = [crt EXCEPT ![c] = IdleCrt]
  /\ LET json == crt[c]
         sessionId == json.session
         newSessionOrders == Append(cash.newSessionOrders, json.orderId)
     IN  cash' =
           IF json.result # "ok"
             THEN [cash EXCEPT !.pc = "idle", !.error = "create_failed",
                               !.byVendor = <<>>, !.pos = 0, !.sessionId = NULL,
                               !.newSessionOrders = <<>>]
           ELSE IF cash.pos < Len(cash.byVendor)
             THEN [cash EXCEPT !.pos = cash.pos + 1, !.sessionId = sessionId,
                               !.newSessionOrders = newSessionOrders]
           ELSE [cash EXCEPT !.pc = "idle",
                             !.currentSession = sessionId,
                             !.printTicket = <<[session |-> sessionId,
                                                orders |-> newSessionOrders]>>,
                             !.sessionOrders = @ \o newSessionOrders,
                             !.cart = <<>>,
                             !.byVendor = <<>>, !.pos = 0, !.sessionId = NULL,
                             !.newSessionOrders = <<>>]
  /\ UNCHANGED <<catalog, store, upd, start, pages>>

\* handleStartNewTicket; the locals of a running submit are not touched.
CashStartNewTicket ==
  /\ cash' = [cash EXCEPT !.currentSession = NULL, !.sessionOrders = <<>>,
                          !.cart = <<>>, !.error = "none", !.printTicket = <<>>]
  /\ UNCHANGED <<catalog, store, upd, crt, start, pages>>

\* The lookup trying the code as an order first (not what the code does).
LookupOrderFirst(code) ==
  LET ss == {t \in SessionIds : sessions[t].ticket_code = code}
      os == {o \in OrderIds : orders[o].order_code = code}
  IN  IF Cardinality(os) = 1
        THEN [kind |-> "order", id |-> FirstOf(os), orders |-> os]
      ELSE IF Cardinality(ss) = 1
        THEN [kind |-> "session", id |-> FirstOf(ss),
              orders |-> {o \in OrderIds : orders[o].session_id = FirstOf(ss)}]
      ELSE [kind |-> "none", id |-> NULL, orders |-> {}]

\* GET /api/status/by-code: the code as a ticket first, then as an order;
\* .single() answers only when exactly one row matches.
LookupByCode(code) ==
  LET ss == {t \in SessionIds : sessions[t].ticket_code = code}
      os == {o \in OrderIds : orders[o].order_code = code}
  IN  IF Cardinality(ss) = 1
        THEN [kind |-> "session", id |-> FirstOf(ss),
              orders |-> {o \in OrderIds : orders[o].session_id = FirstOf(ss)}]
      ELSE IF Cardinality(os) = 1
        THEN [kind |-> "order", id |-> FirstOf(os), orders |-> os]
      ELSE [kind |-> "none", id |-> NULL, orders |-> {}]


(***************************************************************************)
(* Admin summary: getAdminSummary in its three revisions                   *)
(*   "lib"   src/lib/adminDashboard.ts                                     *)
(*   "dash9" lib/adminDashboard.ts with the timing fields                  *)
(*   "dash3" lib/adminDashboard.ts with the Date window                    *)
(* Money is kept in cents; the code's kwacha value is cents / 100.         *)
(***************************************************************************)
AdmImpls == {"lib", "dash9", "dash3"}

\* Instants of a calendar day that the window bounds tell apart, in order.
DayMarks == <<"00:00:00", "12:00:00", "23:59:59.999", "23:59:59.9995">>

Days == 1..MaxDay

Instant(day, mark) == (day - 1) * Len(DayMarks) + mark

DayOf(t) == ((t - 1) \div Len(DayMarks)) + 1

\* .gte("created_at", start) with .lte("created_at", `${date}T23:59:59.999`)
\* or with .lt("created_at", next day 00:00:00).
InWindow(impl, day, t) ==
  /\ Instant(day, 1) <= t
  /\ IF impl = "dash3" THEN t < Instant(day + 1, 1) ELSE t <= Instant(day, 3)

RECURSIVE AscSeq(_)
AscSeq(S) ==
  IF S = {} THEN <<>>
  ELSE LET m == CHOOSE x \in S : \A y \in S : x <= y
       IN  <<m>> \o AscSeq(S \ {m})

\* A stable sort by descending key: an element goes behind those whose key is
\* not smaller.
RECURSIVE InsertDesc(_, _, _)
InsertDesc(sorted, x, key) ==
  IF sorted = <<>> THEN <<x>>
  ELSE IF key[Head(sorted)] >= key[x]
    THEN <<Head(sorted)>> \o InsertDesc(Tail(sorted), x, key)
  ELSE <<x>> \o sorted

RECURSIVE SortInto(_, _, _)
SortInto(acc, rest, key) ==
  IF rest = <<>> THEN acc
  ELSE SortInto(InsertDesc(acc, Head(rest), key), Tail(rest), key)

SortDesc(seq, key) == SortInto(<<>>, seq, key)

CreatedAt == [o \in OrderIds |-> orders[o].created_at]

\* The orders of the day as the query returns them: newest first where the
\* query orders them, in table order otherwise.
QueryOrders(impl, day) ==
  LET found == AscSeq({o \in OrderIds : InWindow(impl, day, orders[o].created_at)})
  IN  IF impl = "dash9" THEN found ELSE SortDesc(found, CreatedAt)

RECURSIVE SumOf(_, _)
SumOf(ids, f) ==
  IF ids = <<>> THEN 0 ELSE f[Head(ids)] + SumOf(Tail(ids), f)

Frac(num, den) == IF num = 0 THEN [num |-> 0, den |-> 1] ELSE [num |-> num, den |-> den]

\* taxToday in cents.
TaxToday(impl, ids) ==
  LET total == SumOf(ids, [o \in OrderIds |-> orders[o].total_cents])
      tax == SumOf(ids, [o \in OrderIds |-> orders[o].tax_cents])
      vat == Frac(16 * total, 116)
  IN  CASE impl = "lib" ->
             IF (\E i \in 1..Len(ids) : orders[ids[i]].tax_cents > 0) /\ tax > 0
               THEN Frac(tax, 1) ELSE vat
        [] impl = "dash9" -> Frac(tax, 1)
        [] OTHER -> IF total > 0 THEN vat ELSE Frac(0, 1)

ActiveOrders(impl, ids) ==
  Cardinality({i \in 1..Len(ids) :
     IF impl = "lib" THEN orders[ids[i]].status # "collected"
     ELSE orders[ids[i]].status \in {"preparing", "ready"}})

\* The start of the preparation as the revision takes it.
PrepFrom(impl, o) ==
  IF impl = "lib" THEN orders[o].created_at ELSE orders[o].preparing_at

RECURSIVE PrepDurations(_, _)
PrepDurations(impl, ids) ==
  IF ids = <<>> THEN <<>>
  ELSE LET o == Head(ids)
           from == PrepFrom(impl, o)
           ready == orders[o].ready_at
       IN  (IF from # NULL /\ ready # NULL /\ ready > from THEN <<ready - from>> ELSE <<>>)
             \o PrepDurations(impl, Tail(ids))

RECURSIVE SumSeq(_)
SumSeq(q) == IF q = <<>> THEN 0 ELSE Head(q) + SumSeq(Tail(q))

\* avgPrepMinutesToday: null, or the sum of the durations over their number.
AvgPrep(impl, ids) ==
  LET d == PrepDurations(impl, ids)
  IN  IF impl = "dash3" \/ d = <<>> THEN <<>>
      ELSE <<[sum |-> SumSeq(d), n |-> Len(d)]>>

VendorName(impl, v, okVendors) ==
  CASE impl = "lib" -> IF okVendors THEN <<"name", v>> ELSE <<"Unknown vendor">>
    [] impl = "dash9" -> <<"name", v>>
    [] OTHER -> IF okVendors THEN <<"name", v>> ELSE <<v>>

\* The Map of vendor totals, filled in the order the vendors are met.
RECURSIVE VendorTotals(_, _)
VendorTotals(acc, ids) ==
  IF ids = <<>> THEN acc
  ELSE LET row == orders[Head(ids)]
           at == {i \in 1..Len(acc) : acc[i].vendorId = row.vendor_id}
       IN  VendorTotals(
             IF at = {}
               THEN Append(acc, [vendorId |-> row.vendor_id, total |-> row.total_cents])
               ELSE [i \in 1..Len(acc) |->
                       IF i \in at THEN [acc[i] EXCEPT !.total = @ + row.total_cents]
                       ELSE acc[i]],
             Tail(ids))

\* An unstable sort of the entries (not what the code does).
VendorSalesReversedTies(impl, ids, okVendors) ==
  LET totals == VendorTotals(<<>>, ids)
      back == [i \in 1..Len(totals) |-> Len(totals) + 1 - i]
      order == SortDesc(back, [i \in 1..Len(totals) |-> totals[i].total])
  IN  [k \in 1..Len(order) |->
         [vendorId |-> totals[order[k]].vendorId,
          vendorName |-> VendorName(impl, totals[order[k]].vendorId, okVendors),
          total |-> totals[order[k]].total]]

\* vendorSalesToday: the entries sorted by (a, b) => b.total - a.total.
VendorSales(impl, ids, okVendors) ==
  LET totals == VendorTotals(<<>>, ids)
      order == SortDesc([i \in 1..Len(totals) |-> i],
                        [i \in 1..Len(totals) |-> totals[i].total])
  IN  [k \in 1..Len(order) |->
         [vendorId |-> totals[order[k]].vendorId,
          vendorName |-> VendorName(impl, totals[order[k]].vendorId, okVendors),
          total |-> totals[order[k]].total]]

RECURSIVE ItemRows(_)
ItemRows(ids) ==
  IF ids = <<>> THEN <<>> ELSE items[Head(ids)] \o ItemRows(Tail(ids))

\* The Map of quantities by name, in the order the names are met.
RECURSIVE ItemCounts(_, _)
ItemCounts(acc, rows) ==
  IF rows = <<>> THEN acc
  ELSE LET row == Head(rows)
           at == {i \in 1..Len(acc) : acc[i].name = row.name_snapshot}
       IN  ItemCounts(
             IF at = {}
               THEN Append(acc, [name |-> row.name_snapshot, quantity |-> row.quantity])
               ELSE [i \in 1..Len(acc) |->
                       IF i \in at THEN [acc[i] EXCEPT !.quantity = @ + row.quantity]
                       ELSE acc[i]],
             Tail(rows))

\* The first entry with the largest quantity above zero, if any.
RECURSIVE BestItem(_, _)
BestItem(best, counts) ==
  IF counts = <<>> THEN best
  ELSE BestItem(IF Head(counts).quantity > (IF best = <<>> THEN 0 ELSE best[1].quantity)
                  THEN <<Head(counts)>> ELSE best,
                Tail(counts))

\* The order_items query: by the ids of the orders that were read, or joined
\* on the day window ("dash9"), which does not depend on the orders read.
ItemQueryIds(impl, day, ids) ==
  IF impl = "dash9"
    THEN AscSeq({o \in OrderIds : InWindow(impl, day, orders[o].created_at)})
    ELSE AscSeq({ids[i] : i \in 1..Len(ids)})

\* The item query issued whatever was read (not what every revision does).
IssuesItemQueryAlways(impl, ids) == TRUE

IssuesItemQuery(impl, ids) == impl = "dash9" \/ ids # <<>>

TopItem(impl, day, ids, okItems) ==
  IF IssuesItemQuery(impl, ids) /\ okItems
    THEN BestItem(<<>>, ItemCounts(<<>>, ItemRows(ItemQueryIds(impl, day, ids))))
    ELSE <<>>

LatestLimit(impl) ==
  CASE impl = "lib" -> 40 [] impl = "dash9" -> 30 [] OTHER -> 12

LatestOrders(impl, ids) ==
  LET sorted == IF impl = "dash9" THEN SortDesc(ids, CreatedAt) ELSE ids
  IN  SubSeq(sorted, 1, IF Len(sorted) < LatestLimit(impl) THEN Len(sorted) ELSE LatestLimit(impl))

ZeroSummary ==
  [ordersToday |-> 0, revenueToday |-> 0, taxToday |-> Frac(0, 1), activeOrders |-> 0,
   avgPrepMinutesToday |-> <<>>, vendorSalesToday |-> <<>>, topVendor |-> <<>>,
   topItem |-> <<>>, latestOrders |-> <<>>]

SummaryOf(impl, day, ids, okVendors, okItems) ==
  LET sales == VendorSales(impl, ids, okVendors)
  IN  [ordersToday |-> Len(ids),
       revenueToday |-> SumOf(ids, [o \in OrderIds |-> orders[o].total_cents]),
       taxToday |-> TaxToday(impl, ids),
       activeOrders |-> ActiveOrders(impl, ids),
       avgPrepMinutesToday |-> AvgPrep(impl, ids),
       vendorSalesToday |-> sales,
       topVendor |-> IF sales = <<>> THEN <<>> ELSE <<sales[1]>>,
       topItem |-> TopItem(impl, day, ids, okItems),
       latestOrders |-> LatestOrders(impl, ids)]

\* The queries a call issues besides the orders query.
QueriesOf(impl, ids) ==
  {"orders"}
    \cup (IF impl # "dash9" /\ ids # <<>> THEN {"vendors"} ELSE {})
    \cup (IF IssuesItemQuery(impl, ids) THEN {"items"} ELSE {})

\* getAdminSummary(date): what it returns or that it throws, and the queries
\* it has issued.  A failed orders read throws ("lib"), returns the zero
\* summary at once ("dash3") or goes on with no orders ("dash9").
getAdminSummary(impl, day, okOrders, okVendors, okItems) ==
  LET ids == IF okOrders THEN QueryOrders(impl, day) ELSE <<>>
  IN  IF ~okOrders /\ impl = "lib"
        THEN [threw |-> TRUE, summary |-> ZeroSummary, queries |-> {"orders"}]
      ELSE IF ~okOrders /\ impl = "dash3"
        THEN [threw |-> FALSE, summary |-> ZeroSummary, queries |-> {"orders"}]
      ELSE [threw |-> FALSE,
            summary |-> SummaryOf(impl, day, ids, okVendors, okItems),
            queries |-> QueriesOf(impl, ids)]

NoAdmReq == [impl |-> "lib", day |-> 0, okOrders |-> TRUE, okVendors |-> TRUE, okItems |-> TRUE]

IdleAdm ==
  [endpoint |-> "none", req |-> NoAdmReq, status |-> 0, kind |-> "none",
   summary |-> ZeroSummary, csv |-> <<>>, queries |-> {}]

AdmReq(impl, day, okOrders, okVendors, okItems) ==
  [impl |-> impl, day |-> day, okOrders |-> okOrders, okVendors |-> okVendors,
   okItems |-> okItems]

\* GET /api/admin/summary
AdmSummary(impl, day, okOrders, okVendors, okItems) ==
  /\ LET r == getAdminSummary(impl, day, okOrders, okVendors, okItems)
     IN  adm' = [endpoint |-> "summary",
                 req |-> AdmReq(impl, day, okOrders, okVendors, okItems),
                 status |-> IF r.threw THEN 500 ELSE 200,
                 kind |-> IF r.threw THEN "error" ELSE "json",
                 summary |-> r.summary,
                 csv |-> <<>>,
                 queries |-> r.queries]
  /\ UNCHANGED <<catalog, store, upd, crt, start, cash, dash, view>>

ReportTypes == {"summary", "vendors", "other"}

\* The rows of the CSV below its header line.
ReportRows(type, day, summary) ==
  IF type = "summary"
    THEN <<[date |-> day, orders_today |-> summary.ordersToday,
            revenue |-> summary.revenueToday, tax |-> summary.taxToday,
            active_orders |-> summary.activeOrders,
            avg_prep_minutes |-> summary.avgPrepMinutesToday]>>
    ELSE [i \in 1..Len(summary.vendorSalesToday) |->
            [date |-> day, vendor_id |-> summary.vendorSalesToday[i].vendorId,
             vendor_name |-> summary.vendorSalesToday[i].vendorName,
             revenue |-> summary.vendorSalesToday[i].total]]

\* GET /api/admin/reports
AdmReport(impl, day, type, okOrders, okVendors, okItems) ==
  /\ LET r == getAdminSummary(impl, day, okOrders, okVendors, okItems)
         known == type \in {"summary", "vendors"}
     IN  adm' = [endpoint |-> "reports",
                 req |-> AdmReq(impl, day, okOrders, okVendors, okItems),
                 status |-> IF r.threw THEN 500 ELSE IF known THEN 200 ELSE 400,
                 kind |-> IF r.threw \/ ~known THEN "error" ELSE "csv",
                 summary |-> r.summary,
                 csv |-> IF r.threw \/ ~known THEN <<>> ELSE ReportRows(type, day, r.summary),
                 queries |-> r.queries]
  /\ UNCHANGED <<catalog, store, upd, crt, start, cash, dash, view>>

\* The admin dashboard in the browser.  Time is in milliseconds and advances in
\* thirds of the debounce delay.  impl is the component mounted: "page" is
\* AdminPage, which loads the summary itself; "listener" is
\* AdminRealtimeListener, which asks the router to refresh.  timer is the due
\* time of the pending timeout behind refreshTimeout.current; notes are the
\* instants at which a change notification was delivered; fetches are the
\* instants at which the timeout callback ran; loads counts the calls of
\* refreshSummary from the effect itself; pending counts the requests to
\* /api/admin/summary not yet answered.
IdleDash ==
  [impl |-> "none", phase |-> "idle", now |-> 0, timer |-> NULL, notes |-> {},
   fetches |-> <<>>, loads |-> 0, pending |-> 0, summary |-> <<>>,
   loading |-> TRUE, error |-> FALSE, left |-> <<>>]

DashImpls == {"page", "listener"}

Quantum == DebounceMs \div 3

\* The tables the channel listens to, and the events of a change.
DashTables(impl) ==
  IF impl = "page" THEN {"orders", "order_items"}
  ELSE {"orders", "order_items", "order_events"}

ChangeEvents == {"INSERT", "UPDATE", "DELETE"}

\* The start of refreshSummary: setError(null), then the request leaves.
RefreshStarted(d) ==
  IF d.impl = "page" THEN [d EXCEPT !.error = FALSE, !.pending = @ + 1] ELSE d

\* if (refreshTimeout.current) clearTimeout(...); setTimeout(..., 300)
ScheduleRefreshFirstOnly(d) ==
  IF d.timer # NULL THEN d ELSE [d EXCEPT !.timer = d.now + DebounceMs]

ScheduleRefresh(d) ==
  [d EXCEPT !.timer = d.now + DebounceMs]

\* The effect at mount: the initial load of AdminPage, then the subscription.
DashMount(impl) ==
  /\ dash.phase = "idle"
  /\ dash' = IF impl = "page"
               THEN RefreshStarted([dash EXCEPT !.impl = impl, !.phase = "mounted", !.loads = @ + 1])
               ELSE [dash EXCEPT !.impl = impl, !.phase = "mounted"]
  /\ UNCHANGED <<catalog, store, upd, crt, start, cash, adm, view>>

\* A postgres_changes notification reaches one of the channel's callbacks.
DashNotify(table, event, row) ==
  /\ dash.phase = "mounted"
  /\ table \in DashTables(dash.impl)
  /\ dash' = [ScheduleRefresh(dash) EXCEPT !.notes = @ \cup {dash.now}]
  /\ UNCHANGED <<catalog, store, upd, crt, start, cash, adm, view>>

\* The timeout comes due and its callback runs.
DashFire ==
  /\ dash.phase = "mounted"
  /\ dash.timer # NULL
  /\ dash.timer = dash.now
  /\ dash' = RefreshStarted([dash EXCEPT !.timer = NULL, !.fetches = Append(@, dash.now)])
  /\ UNCHANGED <<catalog, store, upd, crt, start, cash, adm, view>>

\* Time passes, not beyond the instant at which the pending timeout is due.
DashTick ==
  /\ dash.now + Quantum <= MaxClock * Quantum
  /\ dash.timer # NULL => dash.now + Quantum <= dash.timer
  /\ dash' = [dash EXCEPT !.now = @ + Quantum]
  /\ UNCHANGED <<catalog, store, upd, crt, start, cash, adm, view>>

\* The answer of /api/admin/summary reaches refreshSummary; arrived is FALSE
\* when fetch or res.json() throws.
DashReceive(arrived, okOrders) ==
  /\ dash.phase = "mounted"
  /\ dash.pending > 0
  /\ LET r == getAdminSummary("lib", 1, okOrders, TRUE, TRUE)
         d == [dash EXCEPT !.pending = @ - 1]
     IN  dash' = IF ~arrived THEN [d EXCEPT !.error = TRUE, !.loading = FALSE]
                 ELSE IF r.threw THEN [d EXCEPT !.error = TRUE]
                 ELSE [d EXCEPT !.summary = <<r.summary>>, !.loading = FALSE]
  /\ UNCHANGED <<catalog, store, upd, crt, start, cash, adm, view>>

\* The effect's cleanup: the timeout is cleared and the channel removed.
DashUnmount ==
  /\ dash.phase = "mounted"
  /\ dash' = [dash EXCEPT !.phase = "gone", !.timer = NULL, !.left = <<dash.now>>]
  /\ UNCHANGED <<catalog, store, upd, crt, start, cash, adm, view>>

\* The customer status page (useStatusByCode).  code is the code in the URL,
\* data the answer last given to setData, reqs the calls of fetchStatus in the
\* order they were started, each "sent", "served" (the route has read the
\* store and answered) or "done" (the answer reached the page).  seen holds
\* the stored statuses as of the latest notification delivered.
IdleView ==
  [code |-> <<>>, data |-> <<>>, loading |-> TRUE, error |-> FALSE,
   reqs |-> <<>>, seen |-> <<>>]

StoredStatuses == [o \in OrderIds |-> orders[o].status]

\* The body GET /api/status/by-code answers with: what the code names and
\* the status of each of its orders; <<>> when the answer is an error.
StatusAnswer(code, ok) ==
  LET hit == LookupByCode(code)
  IN  IF ~ok \/ hit.kind = "none" THEN <<>>
      ELSE <<[kind |-> hit.kind, id |-> hit.id,
              orders |-> [o \in hit.orders |-> orders[o].status]]>>

\* The start of fetchStatus: setLoading(true), setError(null), the request.
FetchStarted(v) ==
  [v EXCEPT !.loading = TRUE, !.error = FALSE,
            !.reqs = Append(@, [pc |-> "sent", answer |-> <<>>])]

\* The ids in the realtime filter; empty while there is nothing to watch.
WatchedOrders(v) == IF v.data = <<>> THEN {} ELSE DOMAIN v.data[1].orders

\* The page is opened with a code: the first effect calls fetchStatus.
ViewOpen(code) ==
  /\ view.code = <<>>
  /\ view' = FetchStarted([view EXCEPT !.code = <<code>>, !.seen = StoredStatuses])
  /\ UNCHANGED <<catalog, store, upd, crt, start, cash, adm, dash>>

\* The route reads the store and answers request i.
ViewServe(i, ok) ==
  /\ i \in 1..Len(view.reqs)
  /\ view.reqs[i].pc = "sent"
  /\ view' = [view EXCEPT !.reqs[i] = [pc |-> "served", answer |-> StatusAnswer(view.code[1], ok)]]
  /\ UNCHANGED <<catalog, store, upd, crt, start, cash, adm, dash>>

\* The answer of request i reaches fetchStatus: setData, or setError.
ViewReceive(i) ==
  /\ i \in 1..Len(view.reqs)
  /\ view.reqs[i].pc = "served"
  /\ LET v == [view EXCEPT !.reqs[i].pc = "done", !.loading = FALSE]
     IN  view' = IF view.reqs[i].answer = <<>> THEN [v EXCEPT !.error = TRUE]
                 ELSE [v EXCEPT !.data = view.reqs[i].answer]
  /\ UNCHANGED <<catalog, store, upd, crt, start, cash, adm, dash>>

\* An UPDATE of a watched order is notified: the callback calls fetchStatus.
ViewNotify ==
  /\ \E o \in WatchedOrders(view) : view.seen[o] # orders[o].status
  /\ Len(view.reqs) < MaxFetches
  /\ view' = FetchStarted([view EXCEPT !.seen = StoredStatuses])
  /\ UNCHANGED <<catalog, store, upd, crt, start, cash, adm, dash>>


(***************************************************************************)
(* Initial state: the catalog as the Catalog Gateway supplies it, an empty *)
(* store, no request in flight.                                            *)
(***************************************************************************)
MenuRow(v, n, p, act, av) ==
  [vendor_id |-> v, name |-> n, price_cents |-> p, is_active |-> act, is_available |-> av]

InitVendors ==
  [v \in VendorIds |-> [is_active |-> v # "v3"]]

InitMenu ==
  [m \in MenuIds |->
     CASE m = "m1" -> MenuRow("v1", "A", 1000, TRUE, TRUE)
       [] m = "m2" -> MenuRow("v1", "B", 500, TRUE, TRUE)
       [] m = "m3" -> MenuRow("v2", "C", 300, TRUE, TRUE)
       [] m = "m4" -> MenuRow("v2", "D", 250, TRUE, FALSE)
       [] OTHER    -> MenuRow("v4", "E", 700, TRUE, TRUE)]

EmptyStore(cap) ==
  /\ sessions = <<>>
  /\ orders = <<>>
  /\ items = [o \in 1..cap |-> <<>>]
  /\ events = [o \in 1..cap |-> <<>>]

InitStore == EmptyStore(MaxOrders)

InitCalls ==
  /\ upd = [w \in Workers |-> IdleUpd]
  /\ crt = [c \in Cashiers |-> IdleCrt]
  /\ start = IdleStart
  /\ cash = IdleCash
  /\ adm = IdleAdm
  /\ dash = IdleDash
  /\ view = IdleView

Init ==
  /\ vendors = InitVendors
  /\ menu = InitMenu
  /\ InitStore
  /\ InitCalls

\* The lifecycle specifications follow the orders of one createOrder request
\* per cashier slot (CreateStep starts a call only in a slot that has made none)
\* and any number of status requests.  The requests submitted to createOrder:
EngineInputs ==
  {[impl |-> "timed", vendorId |-> v, items |-> cart, taxRate |-> <<>>, sessionId |-> s] :
     v \in {"v1", "v3"},
     cart \in {<<>>, <<Line("m1", 1)>>},
     s \in {<<>>, <<1>>}}

CreateWith(c, inputs) ==
  \/ /\ crt[c].pc = "idle"
     /\ crt[c].result = "none"
     /\ \E input \in inputs, code \in generateSimpleCode("WL"), ok \in BOOLEAN :
          /\ InsertsSession(input, code, ok) => Len(sessions) < MaxSessions
          /\ CrtEnsureSession(c, input, code, ok)
  \/ \E okVendor \in BOOLEAN, okMenu \in BOOLEAN : CrtValidate(c, okVendor, okMenu)
  \/ /\ crt[c].pc = "order"
     /\ \E code \in generateSimpleCode(OrderPrefix(crt[c].input.impl)), now \in Times,
           ok \in BOOLEAN :
          /\ InsertsOrder(code, ok) => Len(orders) < MaxOrders
          /\ CrtInsertOrder(c, code, now, ok)
  \/ \E ok \in BOOLEAN : CrtInsertItems(c, ok)
  \/ \E ok \in BOOLEAN : CrtInsertEvent(c, ok)

CreateStep(c) == CreateWith(c, EngineInputs)

EngineActors == {"vendor"}

\* The inputs of a status call.  The timestamp is only read on the way to a
\* write, so the other outcomes are tried with one value of it.
WillWrite(key, to, ok) ==
  ok /\ \E o \in MatchingOrders(key) :
          o = FirstOf(MatchingOrders(key)) /\ Decide(StatusRow(o), to) = "write"

UpdateStep(w) ==
  \/ /\ upd[w].pc = "idle"
     /\ \E key \in UpdKeys, to \in Statuses, ok \in BOOLEAN :
          \E actor \in EngineActors, at \in IF WillWrite(key, to, ok) THEN Times ELSE {1} :
            /\ WillWrite(key, to, ok) => Len(events[FirstOf(MatchingOrders(key))]) < MaxEvents
            /\ UpdLoad(w, key, to, actor, at, ok)
  \/ \E ok \in BOOLEAN : UpdWrite(w, ok)
  \/ \E ok \in BOOLEAN : UpdLog(w, ok)

Next ==
  \/ \E c \in Cashiers : CreateStep(c)
  \/ \E w \in Workers : UpdateStep(w)

Spec == Init /\ [][Next]_vars


(***************************************************************************)
(* The same engine with calls that do not overlap: a call starts only when *)
(* no other call is in flight.                                             *)
(***************************************************************************)
Quiet ==
  /\ \A w \in Workers : upd[w].pc = "idle"
  /\ \A c \in Cashiers : crt[c].pc = "idle"

SeqNext ==
  \/ \E c \in Cashiers : (crt[c].pc = "idle" => Quiet) /\ CreateStep(c)
  \/ \E w \in Workers : (upd[w].pc = "idle" => Quiet) /\ UpdateStep(w)

SpecSeq == Init /\ [][SeqNext]_vars


(***************************************************************************)
(* The engine next to the catalog: while one order is created and moved    *)
(* through its lifecycle, the rows of menu_items are edited.  Nothing in   *)
(* this code writes menu_items; the edit is the environment's.             *)
(***************************************************************************)
CatalogItems == {"m1"}

\* The edits tried: a new name and price, the item switched off (inactive and
\* unavailable), both, and back to the row as it was.
CatalogRows(m) ==
  {MenuRow(InitMenu[m].vendor_id, e.name, e.price_cents, on, on) :
     e \in {[name |-> InitMenu[m].name, price_cents |-> InitMenu[m].price_cents],
            [name |-> "Z", price_cents |-> InitMenu[m].price_cents + 200]},
     on \in BOOLEAN}

CatalogChange(m, row) ==
  /\ menu' = [menu EXCEPT ![m] = row]
  /\ menu' # menu
  /\ UNCHANGED <<vendors, store, upd, crt, start, cash, pages>>

CatalogInputs ==
  {[impl |-> i, vendorId |-> "v1", items |-> <<Line("m1", 2)>>, taxRate |-> <<>>, sessionId |-> <<>>] :
     i \in Impls}

CatalogNext ==
  \/ \E c \in Cashiers : CreateWith(c, CatalogInputs)
  \/ UpdateStep("w1")
  \/ \E m \in CatalogItems : \E row \in CatalogRows(m) : CatalogChange(m, row)

SpecCatalog == Init /\ [][CatalogNext]_vars


(***************************************************************************)
(* Requests that are refused: createOrder for vendors that are missing or  *)
(* inactive, for carts with items that are missing, inactive or            *)
(* unavailable and for the empty cart, next to requests that pass.         *)
(***************************************************************************)
RejectMenus ==
  {InitMenu, [InitMenu EXCEPT !["m2"].is_active = FALSE]}

RejectVendors == {"v1", "v2", "v3", "v0"}

RejectCarts ==
  {<<>>, <<Line("m1", 1)>>, <<Line("m2", 1)>>, <<Line("m4", 1)>>, <<Line("m0", 1)>>,
   <<Line("m1", 1), Line("m2", 1)>>, <<Line("m3", 1), Line("m4", 1)>>}

RejectInputs ==
  {[impl |-> i, vendorId |-> v, items |-> cart, taxRate |-> <<>>, sessionId |-> <<>>] :
     i \in Impls, v \in RejectVendors, cart \in RejectCarts}

RejectInit ==
  /\ vendors = InitVendors
  /\ menu \in RejectMenus
  /\ InitStore
  /\ InitCalls

RejectNext == \E c \in Cashiers : CreateWith(c, RejectInputs)

SpecReject == RejectInit /\ [][RejectNext]_vars


(***************************************************************************)
(* Totals: createOrder over carts, prices and tax rates.  The menu price   *)
(* of one item is drawn in the initial state; the request carries one or   *)
(* two lines and an optional tax rate.                                     *)
(***************************************************************************)
TotalsMenus ==
  {[InitMenu EXCEPT !["m3"].price_cents = p] : p \in 1..MaxPrice}

TotalsLines == {Line(m, q) : m \in {"m1", "m2", "m3"}, q \in 1..MaxQty}

TotalsCarts ==
  {<<l>> : l \in TotalsLines}
    \cup {<<l1, l2>> : l1 \in TotalsLines, l2 \in TotalsLines}

TotalsInputs ==
  {[impl |-> i, vendorId |-> "v1", items |-> cart, taxRate |-> t, sessionId |-> <<>>] :
     i \in Impls,
     cart \in TotalsCarts,
     t \in {<<>>} \cup {<<r>> : r \in TaxRates}}

TotalsInit ==
  /\ vendors = InitVendors
  /\ menu \in TotalsMenus
  /\ InitStore
  /\ InitCalls

TotalsNext == \E c \in Cashiers : CreateWith(c, TotalsInputs)

SpecTotals == TotalsInit /\ [][TotalsNext]_vars


(***************************************************************************)
(* Quantities: createOrder over the quantities a request body can carry;   *)
(* the engine and the route take the number as it comes.                   *)
(***************************************************************************)
QuantityLines == {Line(m, q) : m \in {"m1", "m2"}, q \in {-1, 0} \cup 1..MaxQty}

QuantityCarts ==
  {<<l>> : l \in QuantityLines}
    \cup {<<l1, l2>> : l1 \in {l \in QuantityLines : l.menuItemId = "m1"},
                       l2 \in {l \in QuantityLines : l.menuItemId = "m2"}}

QuantityInputs ==
  {[impl |-> i, vendorId |-> "v1", items |-> cart, taxRate |-> <<>>, sessionId |-> <<>>] :
     i \in Impls, cart \in QuantityCarts}

QuantityNext == \E c \in Cashiers : CreateWith(c, QuantityInputs)

SpecQuantity == Init /\ [][QuantityNext]_vars


(***************************************************************************)
(* The admin endpoints over a table of orders.  The table is drawn in the  *)
(* initial state: orders of one ticket, each with one item line at 500     *)
(* cents, created through createOrder and moved on by updateOrderStatus at *)
(* some earlier time.  Three families of tables: vendors and amounts,      *)
(* creation times, preparation times.                                      *)
(***************************************************************************)
DayRow(r, k) ==
  [order_code |-> <<"WL", 1000 + k>>,
   vendor_id |-> r.vendor,
   session_id |-> 1,
   total_cents |-> 500 * r.quantity,
   net_cents |-> 500 * r.quantity,
   tax_cents |-> 0,
   tax_rate |-> 0,
   status |-> r.status,
   preparing_at |-> r.preparing_at,
   ready_at |-> r.ready_at,
   collected_at |-> NULL,
   created_at |-> r.created_at]

DayItem(r) ==
  [name_snapshot |-> IF r.vendor = "v1" THEN "B" ELSE "C",
   unit_price_cents |-> 500,
   quantity |-> r.quantity,
   notes |-> ""]

SalesRows ==
  {[vendor |-> v, quantity |-> q, status |-> st, created_at |-> Instant(1, 2),
    preparing_at |-> NULL, ready_at |-> NULL] :
     v \in {"v1", "v2"}, q \in 1..MaxQty, st \in {"preparing", "collected"}}

WindowRows ==
  {[vendor |-> "v1", quantity |-> 1, status |-> "preparing", created_at |-> t,
    preparing_at |-> NULL, ready_at |-> NULL] :
     t \in Instant(1, 1)..Instant(MaxDay, Len(DayMarks))}

PrepRows ==
  {[vendor |-> "v1", quantity |-> 1, status |-> IF ready = NULL THEN "preparing" ELSE "ready",
    created_at |-> Instant(1, 1), preparing_at |-> prep, ready_at |-> ready] :
     prep \in {NULL, Instant(1, 2)},
     ready \in {NULL} \cup Instant(1, 2)..Instant(1, Len(DayMarks))}

Tables(rows) == UNION {[1..n -> rows] : n \in 0..MaxRows}

SummaryInit(rows) ==
  /\ vendors = InitVendors
  /\ menu = InitMenu
  /\ sessions = <<[ticket_code |-> <<"WL", 1000>>, status |-> "open"]>>
  /\ \E t \in Tables(rows) :
       /\ orders = [k \in 1..Len(t) |-> DayRow(t[k], k)]
       /\ items = [o \in 1..MaxRows |-> IF o <= Len(t) THEN <<DayItem(t[o])>> ELSE <<>>]
       /\ events = [o \in 1..MaxRows |->
                      IF o <= Len(t) THEN <<StatusEvent(NoStatus, "preparing", "cashier")>>
                      ELSE <<>>]
  /\ InitCalls

\* One request to one of the two endpoints is followed on each table.
AdmNext ==
  /\ adm.endpoint = "none"
  /\ \E impl \in AdmImpls, day \in Days, okOrders \in BOOLEAN, okVendors \in BOOLEAN,
        okItems \in BOOLEAN :
    \/ AdmSummary(impl, day, okOrders, okVendors, okItems)
    \/ \E type \in ReportTypes : AdmReport(impl, day, type, okOrders, okVendors, okItems)

SpecSales == SummaryInit(SalesRows) /\ [][AdmNext]_vars

SpecWindow == SummaryInit(WindowRows) /\ [][AdmNext]_vars

SpecPrep == SummaryInit(PrepRows) /\ [][AdmNext]_vars


(***************************************************************************)
(* Standalone ticket creation, call after call, on a store that fills up.  *)
(***************************************************************************)
StartNext ==
  \/ \E code \in generateTicketCode : StartBegin(code)
  \/ \E ok \in BOOLEAN, next \in generateTicketCode :
       /\ InsertsTicket(ok) => Len(sessions) < MaxTickets
       /\ StartInsert(ok, next)

SpecStart == Init /\ [][StartNext]_vars


(***************************************************************************)
(* createOrder on tickets that exist already: tickets are made by          *)
(* sessions/start, and a createOrder request names one of them, names one  *)
(* that does not exist, or names none.                                     *)
(***************************************************************************)
TicketInputs ==
  {[impl |-> i, vendorId |-> "v1", items |-> <<Line("m1", 1)>>, taxRate |-> <<>>, sessionId |-> s] :
     i \in Impls, s \in {<<>>} \cup {<<t>> : t \in 1..MaxTickets}}

TicketNext ==
  \/ StartNext
  \/ \E c \in Cashiers : CreateWith(c, TicketInputs)

SpecTicket == Init /\ [][TicketNext]_vars


(***************************************************************************)
(* Fan-out: one cashier page submitting baskets over several vendors.      *)
(***************************************************************************)
\* The specification follows the basket filled on an empty store through its
\* submit and, after a failure, its resubmits.  Ticket and order codes are
\* drawn from as many values as the store may hold orders.  The write of the
\* creation event succeeds here: its failure changes only the event log, which
\* neither the page nor the lookup reads, and is followed in Spec and SpecSeq.
BasketItems ==
  {CartItem("v1", "m1"), CartItem("v1", "m2"), CartItem("v2", "m3"),
   CartItem("v4", "m5")}

FanoutCodes == SimpleCodes("WL", MaxBasket)

FanoutCarts ==
  {cart \in UNION {[1..n -> BasketItems] : n \in 1..MaxBasket} :
     \A i, j \in 1..Len(cart) : cart[i] = cart[j] => i = j}

FanoutInit ==
  /\ vendors = InitVendors
  /\ menu = InitMenu
  /\ EmptyStore(MaxBasket)
  /\ InitCalls

FanoutCreate(c) ==
  \/ /\ cash.pc = "loop"
     /\ crt[c].pc = "idle"
     /\ crt[c].result = "none"
     /\ \E code \in FanoutCodes, ok \in BOOLEAN :
          /\ InsertsSession(Payload(cash), code, ok) => Len(sessions) < MaxTickets
          /\ CrtEnsureSession(c, Payload(cash), code, ok)
  \/ \E okVendor \in BOOLEAN, okMenu \in BOOLEAN : CrtValidate(c, okVendor, okMenu)
  \/ /\ crt[c].pc = "order"
     /\ \E code \in FanoutCodes, ok \in BOOLEAN :
          /\ InsertsOrder(code, ok) => Len(orders) < MaxBasket
          /\ CrtInsertOrder(c, code, 1, ok)
  \/ \E ok \in BOOLEAN : CrtInsertItems(c, ok)
  \/ CrtInsertEvent(c, TRUE)

FanoutNext ==
  \/ orders = <<>> /\ \E cart \in FanoutCarts : CashFillCart(cart)
  \/ CashSubmit
  \/ \E c \in Cashiers : FanoutCreate(c)
  \/ \E c \in Cashiers : CashReceive(c)
  \/ CashStartNewTicket

SpecFanout == FanoutInit /\ [][FanoutNext]_vars


(***************************************************************************)
(* Basket after basket: the cashier page over several submits.  A basket   *)
(* of one line is filled whenever the page is idle with an empty basket,   *)
(* whether or not a ticket is active.                                      *)
(***************************************************************************)
BasketsCarts ==
  {<<CartItem("v1", "m1")>>, <<CartItem("v2", "m3")>>}

BasketsNext ==
  \/ \E cart \in BasketsCarts : CashFillCart(cart)
  \/ CashSubmit
  \/ \E c \in Cashiers : FanoutCreate(c)
  \/ \E c \in Cashiers : CashReceive(c)
  \/ CashStartNewTicket

SpecBaskets == FanoutInit /\ [][BasketsNext]_vars


(***************************************************************************)
(* Properties.                                                             *)
(***************************************************************************)
LegalPairs == {<<"preparing", "ready">>, <<"ready", "collected">>}

\* The stored status of the order a status call's key selects.
CurrentStatus(key) == orders[FirstOf(MatchingOrders(key))].status

\* A step in which worker w leaves idle or comes back to it with an answer the
\* load gives when the store answers.
StartsCall(w) ==
  /\ upd[w].pc = "idle"
  /\ upd'[w] # upd[w]
  /\ upd'[w].result \notin {"notfound", "failed", "ok"}

\* A step is the load of a status call by worker w for the order `key` names,
\* asking for status `to`, with the store answering.
IsLoad(w, key, to) ==
  /\ upd'[w].pc = "write" => upd'[w].to = to
  /\ \E at \in Times : UpdLoad(w, key, to, "vendor", at, TRUE)

\* C1: a status call asking for a status other than the order's current one
\* goes on to the write only for (preparing, ready) and (ready, collected); for
\* every other pair it ends with the Conflict error and the store (status,
\* timestamps, event log) is unchanged; and no step changes a stored status
\* other than along one of the two legal pairs.
C1_OnlyLegalTransitionsSucceed ==
  [][/\ \A w \in Workers : StartsCall(w) =>
          \A key \in {k \in UpdKeys : MatchingOrders(k) # {}} :
            \A to \in Statuses \ {CurrentStatus(key)} : IsLoad(w, key, to) =>
              IF <<CurrentStatus(key), to>> \in LegalPairs
                THEN upd'[w].pc = "write"
                ELSE /\ upd'[w].pc = "idle"
                     /\ upd'[w].result = "conflict"
                     /\ store' = store
     /\ \A o \in OrderIds :
          orders'[o].status # orders[o].status =>
            <<orders[o].status, orders'[o].status>> \in LegalPairs]_vars

\* A collected order, fully logged, on which a call has just been refused.
C1_Witness ==
  \E w \in Workers, o \in OrderIds :
    /\ upd[w].result = "conflict"
    /\ orders[o].status = "collected"
    /\ Len(events[o]) = 3

\* C2: under every interleaving of status calls the stored status of an order
\* only moves along preparing -> ready -> collected: no step takes it from
\* collected to ready, from ready to preparing, or from preparing to collected.
C2_StatusOnlyMovesForward ==
  [][\A o \in OrderIds :
       orders'[o].status # orders[o].status =>
         <<orders[o].status, orders'[o].status>> \in LegalPairs]_vars

\* C3: an order, its line items and its first audit event are all present or
\* none is.  Stated for the states in which no createOrder call is in flight
\* (the claim speaks of every reachable state, these included): every order in
\* the store has at least one item and its creation event.
C3_OrderItemsEventTogether ==
  (\A c \in Cashiers : crt[c].pc = "idle") =>
    \A o \in OrderIds :
      /\ Len(items[o]) >= 1
      /\ \E i \in 1..Len(events[o]) :
           events[o][i] = StatusEvent(NoStatus, "preparing", "cashier")

ValidWalk(o) ==
  LET ev == events[o]
  IN  /\ Len(ev) >= 1
      /\ ev[1].from_status = NoStatus
      /\ ev[1].to_status = "preparing"
      /\ \A i \in 2..Len(ev) :
           /\ ev[i].from_status = ev[i - 1].to_status
           /\ <<ev[i].from_status, ev[i].to_status>> \in LegalPairs
      /\ ev[Len(ev)].to_status = orders[o].status

\* C4: the events of every order, in append order, are a valid walk through
\* the lifecycle that ends in the stored status.  Stated for the states in
\* which no call is in flight (the claim speaks of every reachable state).
C4_EventsAreValidWalk ==
  Quiet => \A o \in OrderIds : ValidWalk(o)

C6_FirstWriteWins ==
  [][\A o \in OrderIds :
       /\ orders[o].ready_at # NULL => orders'[o].ready_at = orders[o].ready_at
       /\ orders[o].collected_at # NULL => orders'[o].collected_at = orders[o].collected_at]_vars

\* C7: a status call whose target equals the order's current status, whatever
\* that status is, returns the order, writes nothing and appends no event; and
\* a call that writes leaves the order in the status it asked for, so the same
\* call made again is that no-op.
C7_SameStatusIsNoop ==
  [][/\ \A w \in Workers : StartsCall(w) =>
          \A key \in {k \in UpdKeys : MatchingOrders(k) # {}} :
            IsLoad(w, key, CurrentStatus(key)) =>
              /\ upd'[w].pc = "idle"
              /\ upd'[w].result = "noop"
              /\ store' = store
     /\ \A w \in Workers :
          (upd[w].pc = "write" /\ upd'[w].pc = "log") =>
            orders'[upd[w].cur.id].status = upd[w].to]_vars

\* A call has just returned the no-op on an order that went through both
\* transitions.
C7_Witness ==
  \E w \in Workers, o \in OrderIds :
    /\ upd[w].result = "noop"
    /\ orders[o].status = "collected"
    /\ Len(events[o]) = 3

\* The value of the persisted lines of order o: quantity x snapshot unit price,
\* summed line by line.
RECURSIVE ItemsValue(_, _)
ItemsValue(o, n) ==
  IF n = 0 THEN 0
  ELSE ItemsValue(o, n - 1) + items[o][n].quantity * items[o][n].unit_price_cents

ScenarioLines(o) ==
  /\ Len(items[o]) = 2
  /\ items[o][1].unit_price_cents = 1000 /\ items[o][1].quantity = 2
  /\ items[o][2].unit_price_cents = 500 /\ items[o][2].quantity = 1

\* C8: every persisted order has net + tax = total; with tax rate 0 (given or
\* omitted) net = total and tax = 0; with rate r > 0 net is total / (1 + r/100)
\* rounded to the nearest integer, a half rounded up; once its lines are
\* persisted, total is the sum over them of quantity x snapshot unit price;
\* and the lines [1000 x 2, 500 x 1] at rate 16 give 2500, 2155 and 345.
C8_TotalsNetAndTax ==
  \A o \in OrderIds :
    LET r == orders[o]
        d == 100 + r.tax_rate
        err == 2 * (r.net_cents * d - 100 * r.total_cents)
    IN  /\ r.net_cents + r.tax_cents = r.total_cents
        /\ r.tax_rate = 0 => (r.net_cents = r.total_cents /\ r.tax_cents = 0)
        /\ r.tax_rate > 0 => (0 - d < err /\ err <= d)
        /\ items[o] # <<>> => r.total_cents = ItemsValue(o, Len(items[o]))
        /\ (ScenarioLines(o) /\ r.tax_rate = 16) =>
             (r.total_cents = 2500 /\ r.net_cents = 2155 /\ r.tax_cents = 345)

\* The scenario's order, persisted with its lines.
C8_Witness ==
  \E o \in OrderIds :
    /\ ScenarioLines(o)
    /\ orders[o].tax_rate = 16
    /\ orders[o].net_cents = 2155

\* A step ends a submit with success.
FinishesSubmit ==
  /\ cash.pc = "loop"
  /\ cash'.pc = "idle"
  /\ cash'.error = "none"

\* C9: when a submit over N >= 2 vendors that began with no active ticket ends
\* with every request answered with success, the store holds exactly one more
\* ticket and exactly N more orders than when it began, one order per vendor of
\* the basket, each carrying that ticket's id, and the lookup of the ticket's
\* code answers with the ticket and exactly these N orders.
C9_OneTicketManyOrders ==
  [][(FinishesSubmit /\ cash.before.active = NULL /\ Len(cash.byVendor) >= 2) =>
       LET n == Len(cash.byVendor)
           t == Len(sessions)
           new == (cash.before.orders + 1)..Len(orders)
       IN  /\ store' = store
           /\ Len(sessions) = cash.before.sessions + 1
           /\ Len(orders) = cash.before.orders + n
           /\ \A o \in new : orders[o].session_id = t
           /\ \A g \in 1..n :
                Cardinality({o \in new : orders[o].vendor_id = cash.byVendor[g].vendorId}) = 1
           /\ LookupByCode(sessions[t].ticket_code) =
                [kind |-> "session", id |-> t, orders |-> new]
           /\ cash'.currentSession = t]_vars

\* A submit that began with no ticket has ended with two or more orders on
\* its ticket.
C9_Witness ==
  /\ cash.pc = "idle"
  /\ cash.error = "none"
  /\ cash.before.active = NULL
  /\ cash.printTicket # <<>>
  /\ Len(cash.printTicket[1].orders) >= 2
  /\ \A i \in 1..Len(cash.printTicket[1].orders) :
       orders[cash.printTicket[1].orders[i]].session_id = cash.printTicket[1].session


\* C10: sessions/start inserts at most 5 times: an insert is only ever made
\* with loop index 0..4; a step that adds a ticket adds exactly one, carrying
\* the code of that attempt, and ends the call with that ticket; a failed
\* insert is followed by the next attempt while fewer than 5 were made, and
\* the fifth failure, and only it, ends the call with the allocation error.
C10_AtMostFiveAttempts ==
  [][/\ start.pc = "insert" => start.i < 5
     /\ sessions' # sessions =>
          /\ start.pc = "insert"
          /\ Len(sessions') = Len(sessions) + 1
          /\ sessions'[Len(sessions')].ticket_code = start.ticket_code
          /\ start'.pc = "idle"
          /\ start'.result = "ok"
          /\ start'.session = Len(sessions')
          /\ start'.attempts = start.i + 1
     /\ (start.pc = "insert" /\ sessions' = sessions) =>
          IF start.i < 4
            THEN start'.pc = "insert" /\ start'.i = start.i + 1
            ELSE start'.pc = "idle" /\ start'.result = "exhausted"
     /\ start'.result = "exhausted" =>
          (start.result = "exhausted" \/ (start.pc = "insert" /\ start.i = 4))]_vars

\* The call returned the ticket of its fifth insert.
C10_Witness ==
  /\ start.result = "ok"
  /\ start.attempts = 5
  /\ start.session \in SessionIds

\* C11: a code collision inside createOrder is answered by a new code and a
\* retry: no step in which the insert of the ticket or of the order meets a
\* taken code, with the store otherwise answering, ends the call with the
\* failure of that insert.
C11_CollisionIsRetried ==
  [][\A c \in Cashiers :
       /\ \A code \in OrderCodes :
            ~(/\ crt[c].pc = "order"
              /\ crt'[c].result = "order_failed"
              /\ \E now \in Times : CrtInsertOrder(c, code, now, TRUE))
       /\ \A code \in TicketCodes :
            ~(/\ crt[c].pc = "idle"
              /\ cash.pc = "loop"
              /\ crt'[c].result = "session_failed"
              /\ CrtEnsureSession(c, Payload(cash), code, TRUE))]_vars

\* C12: once an order exists, no step (a catalog edit of price, name or flags,
\* a status update, another createOrder step) changes its total, net or tax,
\* and the items written for it stay exactly as written.
C12_OrdersKeepTheirSnapshot ==
  [][\A o \in 1..Len(orders) :
       /\ orders'[o].total_cents = orders[o].total_cents
       /\ orders'[o].net_cents = orders[o].net_cents
       /\ orders'[o].tax_cents = orders[o].tax_cents
       /\ items[o] # <<>> => items'[o] = items[o]]_vars

\* An order with its items, moved on by a status update, while the menu row it
\* was priced from has since changed in price, name and availability.
C12_Witness ==
  \E o \in 1..Len(orders) :
    /\ items[o] # <<>>
    /\ orders[o].status = "ready"
    /\ items[o][1].unit_price_cents = InitMenu["m1"].price_cents
    /\ items[o][1].name_snapshot = InitMenu["m1"].name
    /\ orders[o].total_cents = 2 * InitMenu["m1"].price_cents
    /\ menu["m1"].price_cents # items[o][1].unit_price_cents
    /\ menu["m1"].name # items[o][1].name_snapshot
    /\ ~menu["m1"].is_available
    /\ ~menu["m1"].is_active

\* C13: an order left behind by a successful createOrder starts its life
\* complete: when the call returns success, the order's first event is
\* (null, preparing, cashier), and the row was inserted with status preparing,
\* preparing_at set to the creation time, ready_at and collected_at unset.
C13_OrderStartsPreparing ==
  [][\A c \in Cashiers :
       /\ (crt[c].pc = "order" /\ crt'[c].pc = "items") =>
            LET row == orders'[crt'[c].orderId] IN
              /\ row.status = "preparing"
              /\ row.preparing_at \in Times
              /\ row.ready_at = NULL
              /\ row.collected_at = NULL
       /\ (crt[c].pc = "event" /\ crt'[c].result = "ok") =>
            /\ events'[crt'[c].orderId] # <<>>
            /\ events'[crt'[c].orderId][1] = StatusEvent(NoStatus, "preparing", "cashier")]_vars

\* C14: createOrder answers "menu items not found" exactly when a requested
\* menu id is absent from the catalog (and the vendor check and the menu read
\* went through); in particular two lines with the same existing id pass.
C14_NotFoundIffAbsent ==
  [][\A c \in Cashiers :
       (crt[c].pc = "catalog" /\ crt'[c].pc # "catalog") =>
         LET input == crt[c].input
             absent == \E i \in 1..Len(input.items) : input.items[i].menuItemId \notin DOMAIN menu
             checked == crt'[c].result \notin {"vendor_not_found", "vendor_inactive", "menu_failed"}
         IN  /\ crt'[c].result = "items_not_found" => absent
             /\ (absent /\ checked) => crt'[c].result = "items_not_found"]_vars

\* C15: a request whose vendor is missing or inactive, or one of whose items
\* is inactive or unavailable, fails at the catalog checks and leaves no order,
\* order item or order event behind; a bad vendor is reported before any
\* finding about the items.
BadVendor(input) ==
  input.vendorId \notin DOMAIN vendors \/ ~vendors[input.vendorId].is_active

BadItem(input) ==
  \E i \in 1..Len(input.items) :
    /\ input.items[i].menuItemId \in DOMAIN menu
    /\ ~menu[input.items[i].menuItemId].is_active \/ ~menu[input.items[i].menuItemId].is_available

CatalogFailures ==
  {"vendor_not_found", "vendor_inactive", "menu_failed", "items_not_found", "item_unavailable"}

NothingOrdered ==
  /\ orders = <<>>
  /\ \A o \in DOMAIN items : items[o] = <<>>
  /\ \A o \in DOMAIN events : events[o] = <<>>

C15_BadCatalogFailsWithoutOrder ==
  /\ [](\A c \in Cashiers : crt[c].result \in CatalogFailures => NothingOrdered)
  /\ [][\A c \in Cashiers :
          (crt[c].pc = "catalog" /\ crt'[c].pc # "catalog") =>
            /\ (BadVendor(crt[c].input) \/ BadItem(crt[c].input)) =>
                 /\ crt'[c].pc = "idle"
                 /\ crt'[c].result \in CatalogFailures
                 /\ orders' = orders /\ items' = items /\ events' = events
            /\ BadVendor(crt[c].input) =>
                 crt'[c].result \in {"vendor_not_found", "vendor_inactive"}]_vars

\* A call refused for an item that is switched off, after its ticket was made.
C15_Witness ==
  \E c \in Cashiers :
    /\ crt[c].result = "item_unavailable"
    /\ sessions # <<>>
    /\ NothingOrdered

\* C16: a createOrder request that names a ticket: when the ticket exists (and
\* the store answers) the call goes on with that ticket and creates none, the
\* order it inserts belongs to that ticket and the call returns that ticket;
\* when it does not exist the call ends with NotFound and writes nothing.
C16_GivenTicketIsUsed ==
  [][\A c \in Cashiers :
       /\ \A input \in {i \in TicketInputs : i.sessionId # <<>>} :
          \A code \in generateSimpleCode("WL"), ok \in BOOLEAN :
            (crt[c].pc = "idle" /\ CrtEnsureSession(c, input, code, ok)) =>
              /\ sessions' = sessions
              /\ (ok /\ input.sessionId[1] \in SessionIds) =>
                   /\ crt'[c].pc = "catalog"
                   /\ crt'[c].session = input.sessionId[1]
              /\ input.sessionId[1] \notin SessionIds =>
                   /\ crt'[c].pc = "idle"
                   /\ crt'[c].result = "session_not_found"
                   /\ store' = store
       /\ (crt[c].pc # "idle" /\ crt'[c] # crt[c] /\ crt[c].input.sessionId # <<>>) =>
            /\ sessions' = sessions
            /\ crt'[c].session = crt[c].input.sessionId[1]
            /\ crt'[c].orderId # NULL =>
                 orders'[crt'[c].orderId].session_id = crt[c].input.sessionId[1]]_vars

\* A finished call that was given ticket 2 while ticket 1 existed as well: its
\* order is on ticket 2 and no third ticket was made.
C16_Witness ==
  \E c \in Cashiers :
    /\ crt[c].result = "ok"
    /\ crt[c].session = 2
    /\ Len(sessions) = 2
    /\ orders[crt[c].orderId].session_id = 2

\* C17: a createOrder request with no items ends with the validation error
\* whatever the store would answer, and that step writes nothing: no ticket
\* (also when the request names none), no order, item or event.
C17_EmptyCartWritesNothing ==
  [][\A c \in Cashiers :
       \A input \in {i \in RejectInputs : Len(i.items) = 0} :
       \A code \in generateSimpleCode("WL"), ok \in BOOLEAN :
         (crt[c].pc = "idle" /\ CrtEnsureSession(c, input, code, ok)) =>
           /\ crt'[c].pc = "idle"
           /\ crt'[c].result = "validation"
           /\ store' = store]_vars

\* The call has been refused for its empty cart on a store that is still empty.
C17_Witness ==
  \E c \in Cashiers :
    /\ crt[c].result = "validation"
    /\ sessions = <<>>
    /\ orders = <<>>

C19_OneOrderPerVendorPerTicket ==
  \A o1 \in OrderIds, o2 \in OrderIds :
    (o1 # o2 /\ orders[o1].session_id = orders[o2].session_id) =>
      orders[o1].vendor_id # orders[o2].vendor_id

\* C20: whatever request createOrder accepts, every order item it persists
\* has a quantity above zero and no persisted order has a negative total.
C20_QuantitiesPositive ==
  /\ \A o \in DOMAIN items : \A i \in 1..Len(items[o]) : items[o][i].quantity > 0
  /\ \A o \in OrderIds : orders[o].total_cents >= 0

\* C21: in updateOrderStatus a failed event insert after a successful status
\* write still ends the call with success, the new status staying stored; a
\* failed status write ends the call with a failure and leaves status,
\* timestamps and event log as they were.
C21_EventFailureIsNotFatal ==
  [][\A w \in Workers :
       /\ (upd[w].pc = "log" /\ UpdLog(w, FALSE)) =>
            /\ upd'[w].pc = "idle"
            /\ upd'[w].result = "ok"
            /\ events' = events
            /\ orders'[upd[w].cur.id] = orders[upd[w].cur.id]
            /\ orders'[upd[w].cur.id].status = upd[w].to
       /\ (upd[w].pc = "write" /\ UpdWrite(w, FALSE)) =>
            /\ upd'[w].pc = "idle"
            /\ upd'[w].result = "failed"
            /\ store' = store]_vars

\* A call has returned success for preparing -> ready, the order is ready, and
\* its event log holds no event for that change.
C21_Witness ==
  \E w \in Workers, o \in OrderIds :
    /\ upd[w].result = "ok"
    /\ orders[o].status = "ready"
    /\ \A i \in 1..Len(events[o]) : events[o][i].to_status # "ready"

\* C22: when the read of the day's orders fails, getAdminSummary returns the
\* zero-valued summary and the summary endpoint answers with success.
C22_FailedLoadGivesZeroSummary ==
  (adm.endpoint = "summary" /\ ~adm.req.okOrders) =>
    /\ adm.status = 200
    /\ adm.kind = "json"
    /\ adm.summary = ZeroSummary

\* C23: when the read of the day's orders fails, the reports endpoint answers
\* with an error and produces no CSV.
C23_FailedLoadGivesNoReport ==
  (adm.endpoint = "reports" /\ ~adm.req.okOrders) =>
    /\ adm.kind = "error"
    /\ adm.status # 200
    /\ adm.csv = <<>>

\* C24 as stated: on a day window that holds no orders getAdminSummary returns
\* exactly the zero-valued summary and issues no vendor query and no item
\* query.
C24_EmptyDayAsStated ==
  (adm.endpoint = "summary" /\ adm.req.okOrders
     /\ QueryOrders(adm.req.impl, adm.req.day) = <<>>) =>
    /\ adm.status = 200
    /\ adm.summary = ZeroSummary
    /\ adm.queries = {"orders"}

\* C24: on a day window that holds no orders getAdminSummary returns exactly
\* the zero-valued summary and issues no vendor query; it issues no item
\* query either, except in the revision whose item query is joined on the day
\* window and is issued on every call.
C24_EmptyDayGivesZeroSummary ==
  (adm.endpoint = "summary" /\ adm.req.okOrders
     /\ QueryOrders(adm.req.impl, adm.req.day) = <<>>) =>
    /\ adm.status = 200
    /\ adm.summary = ZeroSummary
    /\ "vendors" \notin adm.queries
    /\ adm.req.impl # "dash9" => "items" \notin adm.queries

\* The summary of a day without orders, asked of a table that holds orders of
\* another day.
C24_Witness ==
  /\ adm.endpoint = "summary"
  /\ adm.req.okOrders
  /\ orders # <<>>
  /\ QueryOrders(adm.req.impl, adm.req.day) = <<>>
  /\ adm.summary = ZeroSummary

CreatedOn(day) == {o \in 1..Len(orders) : DayOf(orders[o].created_at) = day}

\* C26: the day window is half-open, [00:00:00, next day 00:00:00): the summary
\* of a date counts exactly the orders whose creation time lies on that date,
\* so an order created after 23:59:59.999 and before midnight is counted, and
\* one created at 00:00:00 of the next day is not.
C26_WindowIsTheCalendarDay ==
  (adm.endpoint = "summary" /\ adm.req.okOrders) =>
    adm.summary.ordersToday = Cardinality(CreatedOn(adm.req.day))

\* The orders of a date that have both timestamps, ready_at the later one.
Prepared(day) ==
  {o \in CreatedOn(day) :
     /\ orders[o].preparing_at # NULL
     /\ orders[o].ready_at # NULL
     /\ orders[o].ready_at > orders[o].preparing_at}

\* C27: avgPrepMinutes is the mean of ready_at - preparing_at over exactly the
\* orders of the window with both timestamps set and ready_at the later one,
\* and null when there is no such order; an order with a ready_at and no
\* preparing_at contributes nothing.
C27_AvgPrepFromPreparingAt ==
  (adm.endpoint = "summary" /\ adm.req.okOrders) =>
    LET P == Prepared(adm.req.day)
        total == SumSeq([i \in 1..Len(orders) |->
                   IF i \in P THEN orders[i].ready_at - orders[i].preparing_at ELSE 0])
        avg == adm.summary.avgPrepMinutesToday
    IN  IF P = {} THEN avg = <<>>
        ELSE /\ avg # <<>>
             /\ avg[1].sum * Cardinality(P) = total * avg[1].n

(***************************************************************************)
(* The admin dashboard from mount to unmount, next to a store that does    *)
(* not change: the notifications are the environment's.                    *)
(***************************************************************************)
DashNext ==
  \/ \E impl \in DashImpls : DashMount(impl)
  \/ \E table \in DashTables("listener"), event \in ChangeEvents, row \in 1..MaxOrders :
       DashNotify(table, event, row)
  \/ DashFire
  \/ DashTick
  \/ \E arrived \in BOOLEAN, okOrders \in BOOLEAN : DashReceive(arrived, okOrders)
  \/ DashUnmount

SpecDash == Init /\ [][DashNext]_vars

\* Every debounced re-fetch ran DebounceMs after a notification that no other
\* notification followed in between, and no instant saw two of them.
FetchesAreDebounced ==
  /\ \A i \in 1..Len(dash.fetches) :
       /\ (dash.fetches[i] - DebounceMs) \in dash.notes
       /\ \A n \in dash.notes : ~(dash.fetches[i] - DebounceMs < n /\ n < dash.fetches[i])
  /\ \A i, j \in 1..Len(dash.fetches) : dash.fetches[i] = dash.fetches[j] => i = j

\* A notification that stayed the last one for DebounceMs, on a dashboard
\* still mounted at the end of that time, was followed by its re-fetch.
BurstsAreFetched ==
  \A n \in dash.notes :
    ( /\ \A m \in dash.notes : ~(n < m /\ m <= n + DebounceMs)
      /\ dash.now > n + DebounceMs
      /\ dash.left # <<>> => dash.left[1] > n + DebounceMs )
    => \E i \in 1..Len(dash.fetches) : dash.fetches[i] = n + DebounceMs

\* A notification only restarts the timeout, whatever it carries.
NotifyOnlySchedules ==
  dash'.notes # dash.notes =>
    /\ dash'.timer = dash.now + DebounceMs
    /\ dash'.fetches = dash.fetches
    /\ dash'.pending = dash.pending
    /\ dash'.summary = dash.summary

\* After the unmount nothing is pending and nothing is fetched.
UnmountedStaysQuiet ==
  dash.phase = "gone" =>
    /\ dash.timer = NULL
    /\ dash'.timer = NULL
    /\ dash'.fetches = dash.fetches
    /\ dash'.pending = dash.pending

\* C28: on the admin dashboard a re-fetch is issued only once 300 ms have
\* passed without a further notification: a burst of notifications, each less
\* than 300 ms after the one before, causes exactly one re-fetch, 300 ms after
\* the last of them; the handler takes nothing from the notification; and no
\* debounced re-fetch fires after the component was unmounted.
C28_RefetchIsDebounced ==
  /\ [](FetchesAreDebounced /\ BurstsAreFetched)
  /\ [][NotifyOnlySchedules /\ UnmountedStaysQuiet]_vars

\* A burst of three notifications, one re-fetch 300 ms after the last of them,
\* then the unmount with a newer timeout still pending.
C28_Witness ==
  /\ dash.phase = "gone"
  /\ dash.notes = {0, Quantum, 2 * Quantum, 2 * Quantum + DebounceMs}
  /\ dash.fetches = <<2 * Quantum + DebounceMs>>
  /\ dash.left = <<2 * Quantum + DebounceMs + Quantum>>
  /\ dash.now > dash.left[1]

(***************************************************************************)
(* The status page of one order while the order moves through its          *)
(* lifecycle.                                                              *)
(***************************************************************************)
ViewRow ==
  [vendor |-> "v1", quantity |-> 1, status |-> "preparing", created_at |-> Instant(1, 1),
   preparing_at |-> NULL, ready_at |-> NULL]

ViewInit ==
  /\ vendors = InitVendors
  /\ menu = InitMenu
  /\ sessions = <<[ticket_code |-> <<"WL", 1000>>, status |-> "open"]>>
  /\ orders = <<DayRow(ViewRow, 1)>>
  /\ items = [o \in 1..MaxOrders |-> IF o = 1 THEN <<DayItem(ViewRow)>> ELSE <<>>]
  /\ events = [o \in 1..MaxOrders |->
                 IF o = 1 THEN <<StatusEvent(NoStatus, "preparing", "cashier")>> ELSE <<>>]
  /\ InitCalls

ViewCodes == {sessions[1].ticket_code, orders[1].order_code}

ViewNext ==
  \/ UpdateStep("w1")
  \/ \E code \in ViewCodes : ViewOpen(code)
  \/ \E i \in 1..MaxFetches, ok \in BOOLEAN : ViewServe(i, ok)
  \/ \E i \in 1..MaxFetches : ViewReceive(i)
  \/ ViewNotify

SpecView == ViewInit /\ [][ViewNext]_vars

\* Nothing is left to happen on the page: every change was notified and every
\* fetch has been answered, the last of them without an error.
ViewSettled ==
  /\ view.code # <<>>
  /\ view.seen = StoredStatuses
  /\ \A i \in 1..Len(view.reqs) : view.reqs[i].pc = "done"
  /\ ~view.error

\* C29: once the notifications have stopped and every status fetch in flight
\* has completed, the state the status page displays is the stored state,
\* also when the answers arrive in another order than the fetches were
\* started.
C29_SettledPageShowsStoredState ==
  ViewSettled => view.data = StatusAnswer(view.code[1], TRUE)

\* C30: the orders of one basket (the only basket filled once an order exists)
\* are one per vendor and all under one ticket, also after a submit that
\* failed part-way was followed by a submit of the same, uncleared basket.
C30_OneBasketOneTicketOneOrderPerVendor ==
  \A o1, o2 \in OrderIds :
    o1 # o2 =>
      /\ orders[o1].vendor_id # orders[o2].vendor_id
      /\ orders[o1].session_id = orders[o2].session_id

====
